---- MODULE Spec2Model ----
(***************************************************************************)
(* State-machine model of scripts/deepnano2_caller.py: call_file,          *)
(* write_output and the __main__ driver (sequential loop and Pool branch). *)
(*                                                                         *)
(* Paths and file names are sequences of one-character strings, so that    *)
(* os.path.split and str.split(".") are computed, not assumed.  Text lines *)
(* are tuples of the pieces the print statements join.  Times are whole    *)
(* seconds since an arbitrary epoch (the '%Y-%m-%dT%H:%M:%SZ' format has   *)
(* second resolution).                                                     *)
(***************************************************************************)
EXTENDS Integers, Sequences, FiniteSets, TLC

VARIABLES
    files,      \* args.reads + directory listings: the list of input paths
    format,     \* args.output_format
    gzip_output, \* args.gzip_output
    threads,    \* args.threads of the current run (0 before the arguments are parsed)
    pc,         \* position of the main program
    caller,     \* the global decoder object: "none" or "built"
    pool,       \* TRUE once Pool(args.threads) was constructed in this run
    i,          \* index in files of the sequential loop
    out,        \* the list of tuples being iterated (result of call_file)
    j,          \* index in out of the inner loop
    fout,       \* the global name fout: 0 = unbound, else an index in streams
    streams,    \* file objects created by open() in this run
    fs,         \* the output directory: file name -> lines
    done,       \* the counter done
    progress,   \* lines printed to stderr in this run
    next,       \* pool: index of the next task not yet taken by a worker
    inflight,   \* pool: tasks being run by a worker
    resq,       \* pool: results in completion order, not yet yielded
    delivered,  \* pool: tasks whose result imap_unordered has yielded, in order
    calls,      \* history: file index -> outcome of call_file in this run
    writes,     \* history: records written by write_output in this run
    cur,        \* history: index in files of the list held by out
    err,        \* the uncaught exception that ended the run, or "none"
    prev        \* history: summary of the previous run of the program

vars == <<files, format, gzip_output, threads, pc, caller, pool, i, out, j, fout, streams, fs,
          done, progress, next, inflight, resq, delivered, calls, writes, cur,
          err, prev>>

(***************************************************************************)
(* Bounds and inputs                                                       *)
(***************************************************************************)
MaxFiles == 3

Formats == {"fasta", "fastq"}

ThreadCounts == {1, 2}

\* Input paths: a.f, d/a.b.f, b.f, d.x/b.f, a.c, e.f, g.f
PathA == <<"a", ".", "f">>
PathDA == <<"d", "/", "a", ".", "b", ".", "f">>
PathB == <<"b", ".", "f">>
PathDB == <<"d", ".", "x", "/", "b", ".", "f">>
PathC == <<"a", ".", "c">>
PathE == <<"e", ".", "f">>
PathG == <<"g", ".", "f">>

Paths == {PathA, PathDA, PathB, PathDB, PathC, PathE, PathG}

\* One read of a container file: the attributes call_file reads, the pair the
\* decoder returns for its signal, and the exception its access raises.
Rd(id, num, off, rate, bc, ql, fault) ==
    [read_id |-> id, run_id |-> "run1", read_number |-> num, channel_number |-> "7",
     start_offset |-> off, sampling_rate |-> rate, exp_start_time |-> 1000,
     basecall |-> bc, qual |-> ql, fault |-> fault]

\* The container files on disk.  readable = FALSE: get_fast5_file raises OSError.
Disk(p) ==
    CASE p = PathA  -> [readable |-> TRUE, reads |->
                         <<Rd("r1", 1, 4000, 4000, "AC", "!#", "none"),
                           Rd("r2", 2, 6000, 4000, "", "", "none"),
                           Rd("r3", 5, 9999, 4000, "G", "!", "none")>>]
      [] p = PathDA -> [readable |-> TRUE, reads |->
                         <<Rd("r4", 1, 0, 4000, "T", "$", "none")>>]
      [] p = PathB  -> [readable |-> FALSE, reads |-> <<>>]
      [] p = PathDB -> [readable |-> TRUE, reads |->
                         <<Rd("r5", 3, 8000, 4000, "CA", "!!", "none")>>]
      [] p = PathC  -> [readable |-> TRUE, reads |->
                         <<Rd("r6", 1, 4000, 4000, "A", "!", "none"),
                           Rd("r7", 2, 8000, 4000, "C", "!", "KeyError"),
                           Rd("r8", 3, 12000, 4000, "G", "!", "none")>>]
      [] p = PathE  -> [readable |-> TRUE, reads |->
                         <<Rd("r9", 1, 4000, 4000, "T", "!", "none"),
                           Rd("r10", 2, 8000, 4000, "A", "!", "OSError")>>]
      [] OTHER      -> [readable |-> TRUE, reads |->
                         <<Rd("r11", 4, 2000, 4000, "", "", "none"),
                           Rd("r12", 6, 2999999, 3000000, "TT", "!#", "none")>>]

(***************************************************************************)
(* Pure functions of the script                                            *)
(***************************************************************************)
\* Index of the last "/" of p, 0 when there is none.
RECURSIVE LastSlash(_, _)
LastSlash(p, k) ==
    IF k = 0 THEN 0
    ELSE IF p[k] = "/" THEN k ELSE LastSlash(p, k - 1)

\* Faulty variant: the directory part is not split off.
SplitTail_KeepsDirectory(fn) == fn

\* os.path.split(fn)[1]
SplitTail(fn) == SubSeq(fn, LastSlash(fn, Len(fn)) + 1, Len(fn))

\* Index of the first "." of t at or after k, Len(t) + 1 when there is none.
RECURSIVE FirstDot(_, _)
FirstDot(t, k) ==
    IF k > Len(t) THEN Len(t) + 1
    ELSE IF t[k] = "." THEN k ELSE FirstDot(t, k + 1)

\* tail.split(".")[0]
FirstField(t) == SubSeq(t, 1, FirstDot(t, 1) - 1)

\* fname of the input file fn
Stem(fn) == FirstField(SplitTail(fn))

\* fname + "." + args.output_format, the entry created in args.output
OutName(fn, fmt) == Stem(fn) \o <<".", fmt>>

\* Faulty variant: the delta is rounded to the nearest whole second.
AddTimeSeconds_RoundsToNearestSecond(base, off, rate) ==
    base + (2 * off + rate) \div (2 * rate)

\* add_time_seconds(exp_start_time, start_time / sampling_rate): timedelta keeps
\* microseconds, rounded half-even from the quotient, and strftime drops them.
\* The microseconds reach the next second iff 2*10^6*(rate - rem) <= rate.
AddTimeSeconds(base, off, rate) ==
    LET whole == off \div rate
        rem == off % rate
        carry == IF rem > 0 /\ (rate - rem) <= rate \div 2000000 THEN 1 ELSE 0
    IN base + whole + carry

\* The tuple call_file appends for one read.
CallResult(rd) ==
    [read_id |-> rd.read_id, run_id |-> rd.run_id, read_number |-> rd.read_number,
     channel_number |-> rd.channel_number,
     start_time |-> AddTimeSeconds(rd.exp_start_time, rd.start_offset, rd.sampling_rate),
     basecall |-> rd.basecall, qual |-> rd.qual]

\* Some read raises OSError before any read raises KeyError.
RECURSIVE FirstOSError(_, _)
FirstOSError(reads, k) ==
    /\ k <= Len(reads)
    /\ reads[k].fault # "KeyError"
    /\ (reads[k].fault = "OSError" \/ FirstOSError(reads, k + 1))

Returned(v) == [exc |-> "none", val |-> v]

Raised(e) == [exc |-> e, val |-> <<>>]

\* The loop over f5.get_reads() inside the try block, from read k with list acc.
RECURSIVE ReadLoop(_, _, _)

\* Faulty variant: each result is inserted at the front of the list.
ReadLoop_Prepends(reads, k, acc) ==
    IF k > Len(reads) THEN Returned(acc)
    ELSE IF reads[k].fault = "OSError" THEN Returned(<<>>)
    ELSE IF reads[k].fault = "KeyError" THEN Raised("KeyError")
    ELSE ReadLoop(reads, k + 1, <<CallResult(reads[k])>> \o acc)

\* Faulty variant: on OSError the results accumulated so far are returned.
ReadLoop_ReturnsPartial(reads, k, acc) ==
    IF k > Len(reads) THEN Returned(acc)
    ELSE IF reads[k].fault = "OSError" THEN Returned(acc)
    ELSE IF reads[k].fault = "KeyError" THEN Raised("KeyError")
    ELSE ReadLoop(reads, k + 1, Append(acc, CallResult(reads[k])))

\* Lines 38-55: the loop over f5.get_reads() from read k on, acc = out so far.
ReadLoop(reads, k, acc) ==
    IF k > Len(reads) THEN Returned(acc)
    ELSE IF reads[k].fault = "OSError" THEN Returned(<<>>)
    ELSE IF reads[k].fault = "KeyError" THEN Raised("KeyError")
    ELSE ReadLoop(reads, k + 1, Append(acc, CallResult(reads[k])))

\* Faulty variant: no except clause, the OSError leaves call_file.
CallFile_Propagates(fn) ==
    IF ~Disk(fn).readable \/ FirstOSError(Disk(fn).reads, 1) THEN Raised("OSError")
    ELSE ReadLoop(Disk(fn).reads, 1, <<>>)

\* call_file(filename)
CallFile(fn) ==
    IF ~Disk(fn).readable THEN Returned(<<>>)
    ELSE ReadLoop(Disk(fn).reads, 1, <<>>)

\* Faulty variant: the fastq record lacks its "+" line.
RecordLines_NoPlusLine(r, fmt) ==
    IF fmt = "fasta"
    THEN << <<">", r.read_id>>, <<r.basecall>> >>
    ELSE << <<"@", r.read_id, " runid=", r.run_id, " read=", r.read_number,
              " ch=", r.channel_number, " start_time=", r.start_time>>,
            <<r.basecall>>, <<r.qual>> >>

\* The lines write_output prints for one tuple.
RecordLines(r, fmt) ==
    IF fmt = "fasta"
    THEN << <<">", r.read_id>>, <<r.basecall>> >>
    ELSE << <<"@", r.read_id, " runid=", r.run_id, " read=", r.read_number,
              " ch=", r.channel_number, " start_time=", r.start_time>>,
            <<r.basecall>>, <<"+">>, <<r.qual>> >>

\* Faulty variant: no test of len(basecall).
WriteOutput_NoEmptyCheck(r, content, fmt) == content \o RecordLines(r, fmt)

\* write_output(...): the content of the file behind fout after the call.
WriteOutput(r, content, fmt) ==
    IF Len(r.basecall) = 0 THEN content
    ELSE content \o RecordLines(r, fmt)

(***************************************************************************)
(* Initial state: the command line and an empty output directory           *)
(***************************************************************************)
InputLists ==
    UNION { { s \in [1..n -> Paths] : \A a, b \in 1..n : a # b => s[a] # s[b] }
            : n \in 0..MaxFiles }

NoPrev == [threads |-> 0, pc |-> "none", writes |-> <<>>, fs |-> <<>>]

\* The state before the arguments are parsed, whatever the command line is.
InitRun ==
    /\ files \in InputLists
    /\ format \in Formats
    /\ threads = 0
    /\ pc = "start"
    /\ caller = "none"
    /\ pool = FALSE
    /\ i = 0
    /\ out = <<>>
    /\ j = 0
    /\ fout = 0
    /\ streams = <<>>
    /\ fs = <<>>
    /\ done = 0
    /\ progress = <<>>
    /\ next = 1
    /\ inflight = {}
    /\ resq = <<>>
    /\ delivered = <<>>
    /\ calls = <<>>
    /\ writes = <<>>
    /\ cur = 0
    /\ err = "none"
    /\ prev = NoPrev

\* --gzip-output is a store_true flag: FALSE unless given on the command line.
Init ==
    /\ InitRun
    /\ gzip_output = FALSE

\* The same program started with --gzip-output on the command line.
InitGzip ==
    /\ InitRun
    /\ gzip_output = TRUE

(***************************************************************************)
(* The main program                                                        *)
(***************************************************************************)
\* Faulty variant: the decoder is built before the file list is looked at.
Start_BuildsDecoderFirst(t) ==
    /\ pc = "start"
    /\ threads' = t
    /\ caller' = "built"
    /\ IF Len(files) = 0
       THEN /\ pc' = "done"
            /\ UNCHANGED <<pool, i, done>>
       ELSE /\ done' = 0
            /\ IF t <= 1
               THEN /\ pc' = "seq_open"
                    /\ i' = 1
                    /\ pool' = pool
               ELSE /\ pc' = "par_wait"
                    /\ pool' = TRUE
                    /\ i' = i
    /\ UNCHANGED <<files, format, gzip_output, out, j, fout, streams, fs, progress,
                   next, inflight, resq, delivered, calls, writes, cur, err, prev>>

\* Lines 87-118 / 131-132: parse the arguments, leave on an empty file list,
\* build the decoder, enter the sequential loop or construct the pool.
Start(t) ==
    /\ pc = "start"
    /\ threads' = t
    /\ IF Len(files) = 0
       THEN /\ pc' = "done"
            /\ UNCHANGED <<caller, pool, i, done>>
       ELSE /\ caller' = "built"
            /\ done' = 0
            /\ IF t <= 1
               THEN /\ pc' = "seq_open"
                    /\ i' = 1
                    /\ pool' = pool
               ELSE /\ pc' = "par_wait"
                    /\ pool' = TRUE
                    /\ i' = i
    /\ UNCHANGED <<files, format, gzip_output, out, j, fout, streams, fs, progress,
                   next, inflight, resq, delivered, calls, writes, cur, err, prev>>

\* Faulty variant: open(name, "a"), an existing entry keeps its lines.
OpenForWriting_Appends(dir, name) ==
    [n \in DOMAIN dir \cup {name} |-> IF n \in DOMAIN dir THEN dir[n] ELSE <<>>]

\* open(name, "w"): the entry is created, or truncated when it exists.
OpenForWriting(dir, name) ==
    [n \in DOMAIN dir \cup {name} |-> IF n = name THEN <<>> ELSE dir[n]]

\* Lines 119-123: next file of the loop, fout = open(..., "w").
\* The stream is always a plain text file (gz = FALSE): the built-in open() is
\* the only constructor called, args.gzip_output is never read.
SeqOpen ==
    /\ pc = "seq_open"
    /\ i <= Len(files)
    /\ LET name == OutName(files[i], format) IN
         /\ fs' = OpenForWriting(fs, name)
         /\ streams' = Append(streams, [name |-> name, src |-> i, gz |-> FALSE, closed |-> FALSE])
    /\ fout' = Len(streams) + 1
    /\ pc' = "seq_call"
    /\ UNCHANGED <<files, format, gzip_output, threads, caller, pool, i, out, j, done,
                   progress, next, inflight, resq, delivered, calls, writes, cur, err,
                   prev>>

\* Line 124: call_file(fn) in the main process; an exception it raises ends the run.
SeqCall ==
    /\ pc = "seq_call"
    /\ LET res == CallFile(files[i]) IN
         /\ calls' = (i :> res) @@ calls
         /\ IF res.exc = "none"
            THEN /\ out' = res.val
                 /\ j' = 1
                 /\ cur' = i
                 /\ pc' = "seq_write"
                 /\ err' = err
            ELSE /\ pc' = "crashed"
                 /\ err' = res.exc
                 /\ UNCHANGED <<out, j, cur>>
    /\ UNCHANGED <<files, format, gzip_output, threads, caller, pool, i, fout, streams,
                   fs, done, progress, next, inflight, resq, delivered, writes, prev>>

\* Body of the inner loop (lines 125-127 and 135-137): the argument fout is
\* evaluated (NameError when the name is unbound), write_output prints to the
\* global fout, done is incremented and the progress line is printed.
\* A printed line is taken to reach the file at once (buffering is not modelled).
WriteStep ==
    /\ j <= Len(out)
    /\ IF fout = 0
       THEN /\ pc' = "crashed"
            /\ err' = "NameError"
            /\ UNCHANGED <<fs, writes, done, progress, j>>
       ELSE IF streams[fout].closed
       THEN /\ pc' = "crashed"
            /\ err' = "ValueError"
            /\ UNCHANGED <<fs, writes, done, progress, j>>
       ELSE LET name == streams[fout].name
                old == fs[name]
                new == WriteOutput(out[j], old, format)
            IN /\ fs' = [fs EXCEPT ![name] = new]
               /\ writes' = IF new = old THEN writes
                             ELSE Append(writes,
                                         [name |-> name, src |-> cur,
                                          rec |-> out[j],
                                          lines |-> SubSeq(new, Len(old) + 1, Len(new))])
               /\ done' = done + 1
               /\ progress' = Append(progress, [count |-> done + 1,
                                                total |-> Len(files),
                                                read_id |-> out[j].read_id])
               /\ j' = j + 1
               /\ UNCHANGED <<pc, err>>

SeqWrite ==
    /\ pc = "seq_write"
    /\ WriteStep
    /\ UNCHANGED <<files, format, gzip_output, threads, caller, pool, i, out, fout,
                   streams, next, inflight, resq, delivered, calls, cur, prev>>

\* Faulty variant: the stream of the file is left open.
SeqClose_LeavesOpen ==
    /\ pc = "seq_write"
    /\ j > Len(out)
    /\ i' = i + 1
    /\ pc' = IF i = Len(files) THEN "final_close" ELSE "seq_open"
    /\ UNCHANGED <<files, format, gzip_output, threads, caller, pool, out, j, fout,
                   streams, fs, done, progress, next, inflight, resq, delivered, calls,
                   writes, cur, err, prev>>

\* Line 128: the inner loop is exhausted, fout.close(), on to the next file.
SeqClose ==
    /\ pc = "seq_write"
    /\ j > Len(out)
    /\ streams' = [streams EXCEPT ![fout].closed = TRUE]
    /\ i' = i + 1
    /\ pc' = IF i = Len(files) THEN "final_close" ELSE "seq_open"
    /\ UNCHANGED <<files, format, gzip_output, threads, caller, pool, out, j, fout, fs,
                   done, progress, next, inflight, resq, delivered, calls, writes, cur,
                   err, prev>>

\* Line 139: fout.close() after either branch.
FinalClose ==
    /\ pc = "final_close"
    /\ IF fout = 0
       THEN /\ pc' = "crashed"
            /\ err' = "NameError"
            /\ streams' = streams
       ELSE /\ pc' = "done"
            /\ err' = err
            /\ streams' = [streams EXCEPT ![fout].closed = TRUE]
    /\ UNCHANGED <<files, format, gzip_output, threads, caller, pool, i, out, j, fout,
                   fs, done, progress, next, inflight, resq, delivered, calls, writes,
                   cur, prev>>

(***************************************************************************)
(* The pool of line 131 and imap_unordered of line 133                     *)
(*                                                                         *)
(* Workers are forked from the main process: they run call_file with the   *)
(* global caller they inherit, and touch no other state of the main        *)
(* program.  At most args.threads tasks are in progress; results are       *)
(* yielded in the order the tasks complete.                                *)
(***************************************************************************)
PoolRunning == pool /\ pc \in {"par_wait", "par_write"}

\* A free worker takes the next task (tasks are handed out in list order).
WorkerTake ==
    /\ PoolRunning
    /\ next <= Len(files)
    /\ Cardinality(inflight) < threads
    /\ inflight' = inflight \cup {next}
    /\ next' = next + 1
    /\ UNCHANGED <<files, format, gzip_output, threads, pc, caller, pool, i, out, j,
                   fout, streams, fs, done, progress, resq, delivered, calls, writes,
                   cur, err, prev>>

\* Faulty variant: the worker also opens the output file of its task.
WorkerFinish_OpensOutput(k) ==
    /\ PoolRunning
    /\ k \in inflight
    /\ LET res == CallFile(files[k])
           name == OutName(files[k], format)
       IN /\ resq' = Append(resq, [idx |-> k, res |-> res])
          /\ calls' = (k :> res) @@ calls
          /\ fs' = OpenForWriting(fs, name)
          /\ streams' = Append(streams,
                               [name |-> name, src |-> k, gz |-> FALSE, closed |-> FALSE])
    /\ inflight' = inflight \ {k}
    /\ UNCHANGED <<files, format, gzip_output, threads, pc, caller, pool, i, out, j,
                   fout, done, progress, next, delivered, writes, cur, err, prev>>

\* A worker finishes call_file on its task; the outcome (list or exception)
\* joins the results in completion order.
WorkerFinish(k) ==
    /\ PoolRunning
    /\ k \in inflight
    /\ LET res == CallFile(files[k]) IN
         /\ resq' = Append(resq, [idx |-> k, res |-> res])
         /\ calls' = (k :> res) @@ calls
    /\ inflight' = inflight \ {k}
    /\ UNCHANGED <<files, format, gzip_output, threads, pc, caller, pool, i, out, j,
                   fout, streams, fs, done, progress, next, delivered, writes, cur,
                   err, prev>>

\* Line 133: the iterator yields the next completed result, or re-raises the
\* exception of the worker.
ParNext ==
    /\ pc = "par_wait"
    /\ Len(resq) > 0
    /\ LET r == Head(resq) IN
         /\ delivered' = Append(delivered, r.idx)
         /\ IF r.res.exc = "none"
            THEN /\ out' = r.res.val
                 /\ j' = 1
                 /\ cur' = r.idx
                 /\ pc' = "par_write"
                 /\ err' = err
            ELSE /\ pc' = "crashed"
                 /\ err' = r.res.exc
                 /\ UNCHANGED <<out, j, cur>>
    /\ resq' = Tail(resq)
    /\ UNCHANGED <<files, format, gzip_output, threads, caller, pool, i, fout, streams,
                   fs, done, progress, next, inflight, calls, writes, prev>>

\* Lines 134-137.
ParWrite ==
    /\ pc = "par_write"
    /\ WriteStep
    /\ UNCHANGED <<files, format, gzip_output, threads, caller, pool, i, out, fout,
                   streams, next, inflight, resq, delivered, calls, cur, prev>>

\* The inner loop of line 134 is exhausted: back to the iterator.
ParLoopEnd ==
    /\ pc = "par_write"
    /\ j > Len(out)
    /\ pc' = "par_wait"
    /\ UNCHANGED <<files, format, gzip_output, threads, caller, pool, i, out, j, fout,
                   streams, fs, done, progress, next, inflight, resq, delivered, calls,
                   writes, cur, err, prev>>

\* The iterator is exhausted: every task's result was yielded.
ParEnd ==
    /\ pc = "par_wait"
    /\ Len(delivered) = Len(files)
    /\ pc' = "final_close"
    /\ UNCHANGED <<files, format, gzip_output, threads, caller, pool, i, out, j, fout,
                   streams, fs, done, progress, next, inflight, resq, delivered, calls,
                   writes, cur, err, prev>>

Terminated == pc \in {"done", "crashed"}

\* The program is run again on the same command line and output directory.
Restart ==
    /\ Terminated
    /\ prev' = [threads |-> threads, pc |-> pc, writes |-> writes, fs |-> fs]
    /\ threads' = 0
    /\ pc' = "start"
    /\ caller' = "none"
    /\ pool' = FALSE
    /\ i' = 0
    /\ out' = <<>>
    /\ j' = 0
    /\ fout' = 0
    /\ streams' = <<>>
    /\ done' = 0
    /\ progress' = <<>>
    /\ next' = 1
    /\ inflight' = {}
    /\ resq' = <<>>
    /\ delivered' = <<>>
    /\ calls' = <<>>
    /\ writes' = <<>>
    /\ cur' = 0
    /\ err' = "none"
    /\ UNCHANGED <<files, format, gzip_output, fs>>

Next ==
    \/ \E t \in ThreadCounts : Start(t)
    \/ SeqOpen
    \/ SeqCall
    \/ SeqWrite
    \/ SeqClose
    \/ FinalClose
    \/ WorkerTake
    \/ \E k \in 1..MaxFiles + 1 : WorkerFinish(k)
    \/ ParNext
    \/ ParWrite
    \/ ParLoopEnd
    \/ ParEnd
    \/ Restart

Spec == Init /\ [][Next]_vars

SpecGzip == InitGzip /\ [][Next]_vars

(***************************************************************************)
(* Vocabulary of the properties, read off the container files              *)
(***************************************************************************)
\* Kind of the first exception raised while reading fn: "none", "OSError", "KeyError".
RECURSIVE FirstFault(_, _)
FirstFault(reads, k) ==
    IF k > Len(reads) THEN "none"
    ELSE IF reads[k].fault # "none" THEN reads[k].fault
    ELSE FirstFault(reads, k + 1)

FaultOf(fn) ==
    IF ~Disk(fn).readable THEN "OSError" ELSE FirstFault(Disk(fn).reads, 1)

\* read_ids of the reads of fn with a non-empty basecall, in container order,
\* for a file read without error; nothing otherwise.
RECURSIVE NonEmptyIds(_, _)
NonEmptyIds(reads, k) ==
    IF k > Len(reads) THEN <<>>
    ELSE IF Len(reads[k].basecall) > 0
         THEN <<reads[k].read_id>> \o NonEmptyIds(reads, k + 1)
         ELSE NonEmptyIds(reads, k + 1)

ExpectedIds(fn) ==
    IF FaultOf(fn) = "none" THEN NonEmptyIds(Disk(fn).reads, 1) ELSE <<>>

LinesPerRecord == IF format = "fasta" THEN 2 ELSE 4

\* read_ids of the records of an output file, parsed from its header lines
\* (every LinesPerRecord-th line, starting with the k-th).
RECURSIVE HeaderIds(_, _)
HeaderIds(content, k) ==
    IF k > Len(content) THEN <<>>
    ELSE <<content[k][2]>> \o HeaderIds(content, k + LinesPerRecord)

\* The stem of each input path: its base name cut at the first ".".
StemOf(fn) ==
    CASE fn \in {PathA, PathDA, PathC} -> <<"a">>
      [] fn \in {PathB, PathDB} -> <<"b">>
      [] fn = PathE -> <<"e">>
      [] fn = PathG -> <<"g">>

\* <stem>.<format>
ExpectedName(fn) == StemOf(fn) \o <<".", format>>

\* The output file called name exists, no stream on it is open, and it holds
\* exactly the records of input file k, in read order.
WrittenFor(k, name) ==
    /\ name \in DOMAIN fs
    /\ \E s \in DOMAIN streams : streams[s].name = name /\ streams[s].src = k
    /\ \A s \in DOMAIN streams : streams[s].name = name => streams[s].closed
    /\ HeaderIds(fs[name], 1) = ExpectedIds(files[k])
    /\ Len(fs[name]) = LinesPerRecord * Len(ExpectedIds(files[k]))

\* The stem of file k is the stem of no other file among the first n.
StemAlone(k, n) ==
    \A m \in 1..n : m # k => StemOf(files[m]) # StemOf(files[k])

(***************************************************************************)
(* C1  In parallel mode every file the pool delivers gets its matching     *)
(* output stream opened, all its records written there, and closed; every  *)
(* written record is in the stream named after its own input file.         *)
(* The Pool branch binds no stream at all: the claim fails on the code.    *)
(***************************************************************************)
C1_ParallelDelivery ==
    (threads > 1 /\ Terminated) =>
        /\ \A x \in DOMAIN delivered :
              calls[delivered[x]].exc = "none" =>
                  WrittenFor(delivered[x], ExpectedName(files[delivered[x]]))
        /\ \A w \in DOMAIN writes :
              writes[w].name = ExpectedName(files[writes[w].src])

(***************************************************************************)
(* C2  Parallelism transparency: a run with threads = 1 and a run with     *)
(* threads > 1 over the same inputs write the same multiset of records to  *)
(* the same output files.  Fails on the code: the Pool branch writes none. *)
(***************************************************************************)
WriteKey(w) == <<w.name, w.rec.read_id, w.lines>>

Count(log, key) == Cardinality({x \in DOMAIN log : WriteKey(log[x]) = key})

SameMultiset(a, b) ==
    \A key \in {WriteKey(a[x]) : x \in DOMAIN a} \cup {WriteKey(b[x]) : x \in DOMAIN b} :
        Count(a, key) = Count(b, key)

C2_ParallelismTransparency ==
    ( /\ Terminated
      /\ prev.pc \in {"done", "crashed"}
      /\ \/ threads = 1 /\ prev.threads > 1
         \/ threads > 1 /\ prev.threads = 1 )
    => SameMultiset(writes, prev.writes)

(***************************************************************************)
(* C3  Sequential mode, crash while processing file K: as claimed, every   *)
(* file 1..K-1 is closed and holds exactly its own records.                *)
(***************************************************************************)
C3_CrashLeavesEarlierFiles ==
    (threads = 1 /\ pc = "crashed") =>
        \A k \in 1..(i - 1) : WrittenFor(k, ExpectedName(files[k]))

\* C3 as amended: the same for every file among 1..K-1 whose stem is shared
\* by no other file among 1..K (files with equal stems share one output
\* file, which the later open truncates).
C3_CrashLeavesEarlierFilesDistinctStems ==
    (threads = 1 /\ pc = "crashed") =>
        \A k \in 1..(i - 1) :
            StemAlone(k, i) => WrittenFor(k, ExpectedName(files[k]))

C3_Witness ==
    /\ threads = 1
    /\ pc = "crashed"
    /\ i = 3
    /\ \A k \in 1..2 : StemAlone(k, 3) /\ Len(ExpectedIds(files[k])) > 0

C5_NoOutputForUnreadable ==
    ( /\ threads = 1
      /\ pc = "done"
      /\ Len(files) = 2
      /\ \E k \in 1..2 : ~Disk(files[k]).readable
      /\ \E k \in 1..2 : FaultOf(files[k]) = "none"
      /\ StemAlone(1, 2) )
    => \A k \in 1..2 :
          IF Disk(files[k]).readable
          THEN WrittenFor(k, ExpectedName(files[k]))
          ELSE ExpectedName(files[k]) \notin DOMAIN fs

(***************************************************************************)
(* C6  A read without a required attribute aborts that read only:          *)
(* call_file still returns the results of the other reads of the file, and *)
(* the run is not ended by the missing attribute.  Fails on the code: the  *)
(* KeyError leaves call_file and ends the run.                             *)
(***************************************************************************)
RECURSIVE IdsWithAttributes(_, _)
IdsWithAttributes(reads, k) ==
    IF k > Len(reads) THEN <<>>
    ELSE IF reads[k].fault = "KeyError" THEN IdsWithAttributes(reads, k + 1)
    ELSE <<reads[k].read_id>> \o IdsWithAttributes(reads, k + 1)

C6_MissingAttributeSkipsOnlyThatRead ==
    /\ \A k \in DOMAIN calls :
          FaultOf(files[k]) = "KeyError" =>
              /\ calls[k].exc = "none"
              /\ [p \in DOMAIN calls[k].val |-> calls[k].val[p].read_id]
                     = IdsWithAttributes(Disk(files[k]).reads, 1)
    /\ err # "KeyError"

(***************************************************************************)
(* C7  For a file with k reads read without error, call_file returns k     *)
(* results, one per read (empty basecalls included), in the container's    *)
(* order, in the sequential loop and in a pool worker alike; the records   *)
(* written for a file keep that order.                                     *)
(***************************************************************************)
WrittenIdsFrom(k) ==
    LET RECURSIVE Ids(_)
        Ids(x) == IF x > Len(writes) THEN <<>>
                  ELSE IF writes[x].src = k
                       THEN <<writes[x].rec.read_id>> \o Ids(x + 1)
                       ELSE Ids(x + 1)
    IN Ids(1)

IsPrefix(a, b) == Len(a) <= Len(b) /\ a = SubSeq(b, 1, Len(a))

C7_CallFileOrder ==
    /\ \A k \in DOMAIN calls :
          FaultOf(files[k]) = "none" =>
              /\ calls[k].exc = "none"
              /\ Len(calls[k].val) = Len(Disk(files[k]).reads)
              /\ \A p \in DOMAIN calls[k].val :
                    /\ calls[k].val[p].read_id = Disk(files[k]).reads[p].read_id
                    /\ calls[k].val[p].basecall = Disk(files[k]).reads[p].basecall
    /\ \A k \in 1..Len(files) : IsPrefix(WrittenIdsFrom(k), ExpectedIds(files[k]))

\* A pool worker has run call_file on the three-read file a.f, after a
\* sequential run that wrote both of its non-empty records.
C7_Witness ==
    /\ threads = 2
    /\ \E k \in DOMAIN calls : files[k] = PathA /\ Len(calls[k].val) = 3
    /\ prev.threads = 1
    /\ \E x, y \in DOMAIN prev.writes :
          /\ x < y
          /\ prev.writes[x].rec.read_id = "r1"
          /\ prev.writes[y].rec.read_id = "r3"

(***************************************************************************)
(* C8  write_output writes no line for a tuple whose basecall is empty and *)
(* leaves the stream as it was, in fasta and in fastq; a tuple with a      *)
(* non-empty basecall always adds a record.  While the tuples of a file    *)
(* are written, its stream holds one record per non-empty tuple passed to  *)
(* write_output so far, and nothing for the empty ones.                    *)
(***************************************************************************)
PassedNonEmpty == {p \in 1..(j - 1) : Len(out[p].basecall) > 0}

C8_EmptyBasecallWritesNothing ==
    /\ \A w \in DOMAIN writes : Len(writes[w].rec.basecall) > 0
    /\ (pc \in {"seq_write", "par_write"} /\ fout # 0) =>
          /\ Len(fs[streams[fout].name]) = LinesPerRecord * Cardinality(PassedNonEmpty)
          /\ \A p \in 1..(j - 1) :
                (p \in PassedNonEmpty) <=>
                    \E w \in DOMAIN writes :
                        writes[w].src = cur /\ writes[w].rec = out[p]

\* Three tuples of a.f went through write_output in fastq format: the
\* second, with the empty basecall, left no line.
C8_Witness ==
    /\ pc = "seq_write"
    /\ format = "fastq"
    /\ j = 4
    /\ out[1].basecall = "AC" /\ out[2].basecall = "" /\ out[3].basecall = "G"
    /\ Len(fs[streams[fout].name]) = 8

(***************************************************************************)
(* C9  A tuple with a non-empty basecall is written as exactly two lines   *)
(* in fasta (">" + read_id, basecall) and exactly four lines in fastq      *)
(* ("@" + read_id + " runid=" + run_id + " read=" + read_number + " ch=" + *)
(* channel_number + " start_time=" + start_time, basecall, "+", quality),  *)
(* and the stream of the file being written holds those lines only.        *)
(***************************************************************************)
LinesFrom(k) ==
    LET RECURSIVE Cat(_)
        Cat(x) == IF x > Len(writes) THEN <<>>
                  ELSE IF writes[x].src = k THEN writes[x].lines \o Cat(x + 1)
                  ELSE Cat(x + 1)
    IN Cat(1)

C9_RecordLayout ==
    /\ \A w \in DOMAIN writes :
          LET r == writes[w].rec
              l == writes[w].lines
          IN IF format = "fasta"
             THEN /\ Len(l) = 2
                  /\ l[1] = <<">", r.read_id>>
                  /\ l[2] = <<r.basecall>>
             ELSE /\ Len(l) = 4
                  /\ l[1] = <<"@", r.read_id, " runid=", r.run_id, " read=",
                               r.read_number, " ch=", r.channel_number,
                               " start_time=", r.start_time>>
                  /\ l[2] = <<r.basecall>>
                  /\ l[3] = <<"+">>
                  /\ l[4] = <<r.qual>>
    /\ (pc \in {"seq_write", "par_write"} /\ fout # 0) =>
          fs[streams[fout].name] = LinesFrom(cur)

\* The fastq record of r5 was written and is the content of b.fastq.
C9_Witness ==
    /\ format = "fastq"
    /\ \E w \in DOMAIN writes :
          /\ writes[w].rec.read_id = "r5"
          /\ writes[w].lines[4] = <<"!!">>
          /\ fs[writes[w].name] = writes[w].lines

(***************************************************************************)
(* C10  One output file per input file, named <stem>.<format>: as claimed, *)
(* for any list of distinct input files each file's records end up in its  *)
(* own output file and no output file holds another file's records.        *)
(***************************************************************************)
C10_OneOutputPerInput ==
    pc = "done" =>
        \A k \in 1..Len(files) : WrittenFor(k, ExpectedName(files[k]))

\* C10 as amended: a stream is always opened on <stem>.<format> of its input
\* file and a record is only written to the stream of the file it came from;
\* when the run completes, every input file whose stem no other input file
\* shares has exactly its own records in its output file.  (Input files with
\* the same stem share one output file, which the later one overwrites.)
C10_OneOutputPerStem ==
    /\ \A s \in DOMAIN streams : streams[s].name = ExpectedName(files[streams[s].src])
    /\ \A w \in DOMAIN writes : writes[w].name = ExpectedName(files[writes[w].src])
    /\ pc = "done" =>
          \A k \in 1..Len(files) :
              StemAlone(k, Len(files)) => WrittenFor(k, ExpectedName(files[k]))

\* A completed run over d.x/b.f, g.f and a.f, whose stems differ.
C10_Witness ==
    /\ pc = "done"
    /\ files = <<PathDB, PathG, PathA>>
    /\ DOMAIN fs = {ExpectedName(PathDB), ExpectedName(PathG), ExpectedName(PathA)}
    /\ Len(writes) = 4

(***************************************************************************)
(* C11  Output stream lifecycle, in every mode: when a tuple of a file is  *)
(* about to be written, the stream of that file is open; every record was  *)
(* written to a stream opened for its file; at normal end of the run every *)
(* stream that was opened is closed.  Fails on the code: the Pool branch   *)
(* reaches its first write with no stream bound to fout.                   *)
(***************************************************************************)
C11_StreamLifecycle ==
    /\ (pc \in {"seq_write", "par_write"} /\ j <= Len(out)) =>
          /\ fout # 0
          /\ ~streams[fout].closed
          /\ streams[fout].src = cur
    /\ \A w \in DOMAIN writes :
          \E s \in DOMAIN streams :
              streams[s].name = writes[w].name /\ streams[s].src = writes[w].src
    /\ pc = "done" => \A s \in DOMAIN streams : streams[s].closed

(***************************************************************************)
(* C12  With no input file the program exits successfully (sys.exit() at   *)
(* line 98) without creating an entry in the output directory, without     *)
(* constructing the decoder and without starting a worker.                 *)
(***************************************************************************)
C12_ZeroInputFiles ==
    Len(files) = 0 =>
        /\ pc \in {"start", "done"}
        /\ err = "none"
        /\ caller = "none"
        /\ ~pool
        /\ inflight = {} /\ next = 1 /\ calls = <<>>
        /\ streams = <<>>
        /\ fs = <<>>

\* The program was started with --threads 2 and no input file, and has exited.
C12_Witness ==
    /\ Len(files) = 0
    /\ threads = 2
    /\ pc = "done"

(***************************************************************************)
(* C13  Progress lines report only reads that were written: a progress     *)
(* line is printed, and the completed-count incremented, for a read only   *)
(* if a record was written for it (none for an empty basecall), and the    *)
(* count is strictly increasing.  Fails on the code: done is incremented   *)
(* and the line printed for every tuple, written or not.                   *)
(***************************************************************************)
C13_ProgressOnlyForWritten ==
    /\ \A p \in DOMAIN progress :
          \E w \in DOMAIN writes : writes[w].rec.read_id = progress[p].read_id
    /\ done = Len(writes)
    /\ \A p \in 1..(Len(progress) - 1) : progress[p].count < progress[p + 1].count

(***************************************************************************)
(* C14  Idempotence: when the program has run twice with threads = 1 on    *)
(* the same input files, output directory and decoder, the output          *)
(* directory after the second run equals the one after the first run (the  *)
(* second run replaces the first run's output and appends nothing).        *)
(***************************************************************************)
C14_Idempotence ==
    (Terminated /\ threads = 1 /\ prev.threads = 1) => fs = prev.fs

\* Two sequential runs over a.f and d.x/b.f have completed; the output
\* directory holds their three records.
C14_Witness ==
    /\ pc = "done"
    /\ threads = 1
    /\ prev.threads = 1
    /\ prev.pc = "done"
    /\ files = <<PathA, PathDB>>
    /\ Len(writes) = 3
    /\ Len(fs[ExpectedName(PathA)]) = 2 * LinesPerRecord
    /\ Len(fs[ExpectedName(PathDB)]) = LinesPerRecord

(***************************************************************************)
(* C15  With --gzip-output every output stream is a gzip stream and its    *)
(* file is named <stem>.<format>.gz.                                       *)
(***************************************************************************)
C15_GzipOutput ==
    gzip_output =>
        \A s \in DOMAIN streams :
            /\ streams[s].gz
            /\ streams[s].name = ExpectedName(files[streams[s].src]) \o <<".", "gz">>
            /\ streams[s].name \in DOMAIN fs

(***************************************************************************)
(* C16  Start time of a read                                               *)
(***************************************************************************)
\* The reads of file k paired with the tuples call_file returned for them
\* (a list that was returned whole is in the order of the reads).
TimedReads ==
    UNION { { <<Disk(files[k]).reads[n], calls[k].val[n]>> : n \in DOMAIN calls[k].val }
            : k \in { c \in DOMAIN calls : calls[c].exc = "none" } }

\* Whole seconds of start_offset / sampling_rate.
FloorSeconds(rd) == rd.start_offset \div rd.sampling_rate

\* Samples missing to the next whole second (sampling_rate when there is no
\* fractional part).
SamplesToNextSecond(rd) == rd.sampling_rate - (rd.start_offset % rd.sampling_rate)

\* C16 as claimed: the printed start time of every read is the experiment start
\* time plus floor(start_offset / sampling_rate) seconds, never a second more.
C16_StartTimeTruncated ==
    \A p \in TimedReads :
        p[2].start_time = p[1].exp_start_time + FloorSeconds(p[1])

\* C16 as amended: the quotient is rounded to the nearest microsecond, then the
\* fraction is dropped.  The printed start time is the experiment start time
\* plus floor(start_offset / sampling_rate) seconds, or one second more exactly
\* when the fraction is within half a microsecond of the next whole second;
\* below 2 MHz that never happens, and a whole quotient is printed as it is.
C16_StartTimeMicrosecondRounded ==
    \A p \in TimedReads :
        LET rd == p[1]
            late == p[2].start_time - (rd.exp_start_time + FloorSeconds(rd))
            near == /\ SamplesToNextSecond(rd) < rd.sampling_rate
                    /\ rd.sampling_rate \div SamplesToNextSecond(rd) >= 2000000
        IN /\ p[1].read_id = p[2].read_id
           /\ late \in {0, 1}
           /\ late = 1 <=> near
           /\ rd.sampling_rate < 2000000 => late = 0

\* call_file has returned for a.f and for g.f: r1 (4000 samples at 4000 Hz) is
\* one second after the experiment start, r3 (9999 samples) two, and r12
\* (2999999 samples at 3 MHz) one.
C16_Witness ==
    /\ \E k \in DOMAIN calls :
          /\ files[k] = PathA
          /\ calls[k].exc = "none"
          /\ Len(calls[k].val) = 3
          /\ calls[k].val[1].start_time = 1001
          /\ calls[k].val[3].start_time = 1002
    /\ \E k \in DOMAIN calls :
          /\ files[k] = PathG
          /\ calls[k].exc = "none"
          /\ Len(calls[k].val) = 2
          /\ calls[k].val[2].start_time = 1001

(***************************************************************************)
(* C17  Output streams are never shared across workers                     *)
(***************************************************************************)
\* The streams of this run that are open.
OpenStreams == { s \in DOMAIN streams : ~streams[s].closed }

\* A step of a pool worker: a task is taken or finished while the pool runs.
WorkerStep == PoolRunning /\ inflight' # inflight

\* C17: a step of a pool worker opens, writes and closes no output stream (it
\* leaves the streams, the name fout, the output directory and the written
\* records as they are and only adds to the results of the pool), and at any
\* time at most one output stream is open.
C17_StreamsNeverShared ==
    /\ [](Cardinality(OpenStreams) <= 1)
    /\ [][WorkerStep => UNCHANGED <<fout, streams, fs, writes, done, progress>>]_vars

\* A parallel run after a sequential run that wrote output: one worker has
\* returned its list, another is running, and the output directory is as the
\* sequential run left it.
C17_Witness ==
    /\ PoolRunning
    /\ threads = 2
    /\ resq # <<>>
    /\ inflight # {}
    /\ prev.threads = 1
    /\ prev.writes # <<>>
    /\ fs = prev.fs
    /\ streams = <<>>

(***************************************************************************)
(* C18  Every output stream is closed on every exit path: when the run has *)
(* terminated, normally or by an uncaught exception out of call_file or    *)
(* write_output, every stream that was opened for a file has been closed.  *)
(***************************************************************************)
C18_ClosedOnEveryExitPath ==
    Terminated => \A s \in DOMAIN streams : streams[s].closed

(***************************************************************************)
(* C19  call_file is all-or-nothing with respect to OSError: a list it     *)
(* returns is empty or has one tuple for every read of the file, in the    *)
(* order of the reads; when a read raises OSError after earlier reads of   *)
(* the file were decoded, the list returned is empty, not those reads.     *)
(***************************************************************************)
C19_CallFileAllOrNothing ==
    \A k \in DOMAIN calls :
        LET reads == Disk(files[k]).reads
            val == calls[k].val
        IN /\ calls[k].exc = "none" =>
                \/ val = <<>>
                \/ /\ Len(val) = Len(reads)
                   /\ \A n \in DOMAIN reads : val[n].read_id = reads[n].read_id
           /\ (\E n \in 2..Len(reads) :
                  /\ reads[n].fault = "OSError"
                  /\ \A m \in 1..(n - 1) : reads[m].fault = "none") =>
                calls[k].exc = "none" /\ val = <<>>

\* call_file has returned for e.f, whose second read raises OSError after the
\* first was decoded, with the empty list, and for a.f with all three reads.
C19_Witness ==
    /\ \E k \in DOMAIN calls :
          /\ files[k] = PathE
          /\ Disk(PathE).reads[1].fault = "none"
          /\ Disk(PathE).reads[2].fault = "OSError"
          /\ calls[k] = [exc |-> "none", val |-> <<>>]
    /\ \E k \in DOMAIN calls :
          /\ files[k] = PathA
          /\ calls[k].exc = "none"
          /\ Len(calls[k].val) = Len(Disk(PathA).reads)
====
